---- MODULE Spec2Model ----
(***************************************************************************)
(* Model of the demo-parser service (src/main.go): the /parse handler, its *)
(* three stages (downloadDemo, parseDemo, sendToWebhook) and the event     *)
(* handlers parseDemo registers on the replay parser.                      *)
(*                                                                         *)
(* Every request r has its own handler position pc[r] and its own locals:  *)
(* parseDemo's locals are frame[r] (parsed, playerStats, currentRound,     *)
(* startTick), the handler's parsedData is parsedData[r].  An optional     *)
(* value (a nil-able pointer, a response not yet written) is a sequence of *)
(* length 0 or 1.                                                          *)
(***************************************************************************)
EXTENDS Integers, Sequences, FiniteSets, TLC

VARIABLES
    pc,          \* where parseHandler stands
    request,     \* the method and body it was called with
    resp,        \* the response it wrote
    started,     \* the stages it called, in order
    succeeded,   \* the stages that returned no error
    attempts,    \* the calls of client.Do in sendToWebhook
    reply,       \* what that client.Do returned
    fetched,     \* what client.Do returned in downloadDemo
    stream,      \* the signals the parser dispatched, in order
    frame,       \* parseDemo's locals while it runs
    parsedData,  \* what parseDemo returned
    wire         \* the body transmitted to the webhook, until the call returns

vars == <<pc, request, resp, started, succeeded, attempts, reply, fetched, stream,
          frame, parsedData, wire>>

\* ------------------------------------------------------------- bounds
\* Signals one replay delivers to the registered handlers, at most.
MaxEvents == 3

\* The same, for the two runs fed one replay side by side.
MaxTwinEvents == 2

\* Signals the replays of all concurrent requests deliver together, at most.
MaxConcEvents == 2

\* ---------------------------------------------------------- constants
TickRateConstant == 128
StatusOK == 200
StatusBadRequest == 400
StatusMethodNotAllowed == 405
StatusInternalServerError == 500

\* ------------------------------------------------------------- inputs
Requests == {1, 2}

\* The one request the sequential specification serves.
Solo == {1}

Methods == {"POST", "GET"}

\* r.Body: either text json.Decode rejects, or a ParseRequest.
Bodies ==
    { [ok |-> FALSE, DemoID |-> "", FilePath |-> ""],
      [ok |-> TRUE, DemoID |-> "demo-1", FilePath |-> "match.dem"] }

\* p.GameState().IngameTick() as a handler reads it.  The replay library
\* reports negative ticks at the start of some demos.
Ticks == {-127, 1280}

\* *common.Player values the replay library hands to the Kill handler.
\* alice and alicia are one identity seen before and after a rename and a
\* change of side.
NilPlayer == [SteamID64 |-> -1, Name |-> "", Team |-> "nil"]
alice == [SteamID64 |-> 1, Name |-> "alice", Team |-> "TeamTerrorists"]
alicia == [SteamID64 |-> 1, Name |-> "alicia", Team |-> "TeamCounterTerrorists"]
bob == [SteamID64 |-> 2, Name |-> "bob", Team |-> "TeamCounterTerrorists"]
carol == [SteamID64 |-> 3, Name |-> "carol", Team |-> "TeamSpectators"]

KillShape(k, v, a, w, hs, pen) ==
    [Killer |-> k, Victim |-> v, Assister |-> a, Weapon |-> w,
     IsHeadshot |-> hs, PenetratedObjects |-> pen]

\* events.Kill values: Weapon is the text e.Weapon.String() yields.
KillInputs ==
    { KillShape(bob, alicia, NilPlayer, "awp", FALSE, 1),
      KillShape(alice, bob, carol, "ak47", TRUE, 0),
      KillShape(NilPlayer, bob, NilPlayer, "world", FALSE, 0),
      KillShape(alice, NilPlayer, NilPlayer, "ak47", FALSE, 0),
      KillShape(alice, alice, NilPlayer, "hegrenade", FALSE, 0) }

\* events.RoundEnd values with the side scores the game state holds then:
\* Winner and Reason are the texts e.Winner.String(), e.Reason.String() yield.
RoundEndInputs ==
    { [Winner |-> "CT", Reason |-> "elimination", CTScore |-> 1, TScore |-> 0] }

\* p.Header(): map name, PlaybackTime in milliseconds, FrameRate() in
\* thousandths.
Headers ==
    { [MapName |-> "de_dust2", PlaybackMillis |-> 90500, FrameRateMilli |-> 64000],
      [MapName |-> "de_mirage", PlaybackMillis |-> 1999, FrameRateMilli |-> 127900] }

\* What client.Do returns: an error, or a response with a status.
HttpOutcomes ==
    { [err |-> TRUE, status |-> 0],
      [err |-> FALSE, status |-> 200],
      [err |-> FALSE, status |-> 201],
      [err |-> FALSE, status |-> 500] }

\* ---------------------------------------------------- pure functions
\* Go's integer division truncates toward zero.
GoDiv(a, b) ==
    IF a >= 0 THEN a \div b ELSE -((-a) \div b)

\* int(x) of a non-negative float given in thousandths.
GoIntOfMilli(m) == GoDiv(m, 1000)

EmptyStats == [id \in {} |-> 0]

TeamLabel(team) ==
    IF team = "TeamTerrorists" THEN "T"
    ELSE IF team = "TeamCounterTerrorists" THEN "CT"
    ELSE "spectator"

NewPlayer(p) ==
    [SteamID |-> ToString(p.SteamID64), Name |-> p.Name, Team |-> TeamLabel(p.Team),
     Kills |-> 0, Deaths |-> 0, Assists |-> 0,
     ADR |-> 0, HSP |-> 0, KAST |-> 0, Rating |-> 0, Stats |-> {}]


\* Mutant: an existing entry refreshed with the name and team of the sighting.
getOrCreatePlayerRefreshes(stats, p) ==
    IF p.SteamID64 \in DOMAIN stats
    THEN [stats EXCEPT ![p.SteamID64].Name = p.Name, ![p.SteamID64].Team = TeamLabel(p.Team)]
    ELSE [id \in DOMAIN stats \cup {p.SteamID64} |->
            IF id = p.SteamID64 THEN NewPlayer(p) ELSE stats[id]]

\* The map after getOrCreatePlayer(stats, p), p not nil; the pointer it
\* returns is the entry at p.SteamID64.
getOrCreatePlayer(stats, p) ==
    IF p.SteamID64 \in DOMAIN stats
    THEN stats
    ELSE [id \in DOMAIN stats \cup {p.SteamID64} |->
            IF id = p.SteamID64 THEN NewPlayer(p) ELSE stats[id]]


\* Mutant: the name read without the check for nil.
getPlayerNameUnchecked(p) == p.Name

getPlayerName(p) ==
    IF p = NilPlayer THEN "unknown" ELSE p.Name


\* Mutant: the kill counted on a copy of the entry, which is then dropped.
CountKillerOnCopy(stats, p) ==
    IF p # NilPlayer
    THEN getOrCreatePlayer(stats, p)
    ELSE stats

CountKiller(stats, p) ==
    IF p # NilPlayer
    THEN [getOrCreatePlayer(stats, p) EXCEPT ![p.SteamID64].Kills = @ + 1]
    ELSE stats

\* Mutant: the victim's branch copied from the killer's, counter and all.
CountVictimAsKill(stats, p) ==
    IF p # NilPlayer
    THEN [getOrCreatePlayer(stats, p) EXCEPT ![p.SteamID64].Kills = @ + 1]
    ELSE stats

CountVictim(stats, p) ==
    IF p # NilPlayer
    THEN [getOrCreatePlayer(stats, p) EXCEPT ![p.SteamID64].Deaths = @ + 1]
    ELSE stats

CountAssister(stats, p) ==
    IF p # NilPlayer
    THEN [getOrCreatePlayer(stats, p) EXCEPT ![p.SteamID64].Assists = @ + 1]
    ELSE stats

\* Mutant: the assister's name added to the payload.
KillEventDataWithAssister(e) ==
    [killer |-> getPlayerName(e.Killer),
     victim |-> getPlayerName(e.Victim),
     assister |-> getPlayerName(e.Assister),
     weapon |-> e.Weapon,
     isHeadshot |-> e.IsHeadshot,
     penetrated |-> e.PenetratedObjects]

KillEventData(e) ==
    [killer |-> getPlayerName(e.Killer),
     victim |-> getPlayerName(e.Victim),
     weapon |-> e.Weapon,
     isHeadshot |-> e.IsHeadshot,
     penetrated |-> e.PenetratedObjects]

\* Mutant: the quotient rounded down instead of truncated.
RoundDurationFloored(tick, startTick) ==
    (tick - startTick) \div TickRateConstant

RoundDuration(tick, startTick) ==
    GoDiv(tick - startTick, TickRateConstant)

\* parseDemo's locals before the parser runs; header is what p.Header()
\* yields for the downloaded bytes.
NewFrame(demoID, h) ==
    [header |-> h,
     parsed |-> [DemoID |-> demoID, Players |-> <<>>, Rounds |-> <<>>,
                 Events |-> <<>>,
                 Metadata |-> [MapName |-> "", Duration |-> 0, TickRate |-> 0]],
     playerStats |-> EmptyStats,
     currentRound |-> 0,
     startTick |-> 0]

\* Mutant: the increment of the counter left out.
OnRoundStartNoCount(f, e) ==
    [f EXCEPT !.startTick = e.tick]

\* The handlers, as functions of parseDemo's locals f and the signal e.
OnRoundStart(f, e) ==
    [f EXCEPT !.currentRound = @ + 1, !.startTick = e.tick]



\* Mutant: a record numbered by its place in Rounds, not by the counter.
OnRoundEndNumbersByPlace(f, e) ==
    [f EXCEPT !.parsed.Rounds = Append(@,
        [RoundNumber |-> Len(f.parsed.Rounds) + 1,
         WinnerSide |-> e.Winner,
         WinReason |-> e.Reason,
         CTScore |-> e.CTScore,
         TScore |-> e.TScore,
         DurationSeconds |-> RoundDuration(e.tick, f.startTick),
         RoundData |-> {}])]


\* Mutant: the duration divided by the frame rate of the replay's header.
OnRoundEndHeaderRate(f, e) ==
    [f EXCEPT !.parsed.Rounds = Append(@,
        [RoundNumber |-> f.currentRound,
         WinnerSide |-> e.Winner,
         WinReason |-> e.Reason,
         CTScore |-> e.CTScore,
         TScore |-> e.TScore,
         DurationSeconds |-> GoDiv(e.tick - f.startTick, GoIntOfMilli(f.header.FrameRateMilli)),
         RoundData |-> {}])]


\* Mutant: the round-end also restarts the clock for the round to come.
OnRoundEndRestartsClock(f, e) ==
    [f EXCEPT !.parsed.Rounds = Append(@,
        [RoundNumber |-> f.currentRound,
         WinnerSide |-> e.Winner,
         WinReason |-> e.Reason,
         CTScore |-> e.CTScore,
         TScore |-> e.TScore,
         DurationSeconds |-> RoundDuration(e.tick, f.startTick),
         RoundData |-> {}]),
       !.startTick = e.tick]

\* Mutant: a round-end of a round that never started is skipped.
OnRoundEndSkipsUnstarted(f, e) ==
    IF f.currentRound = 0 THEN f
    ELSE [f EXCEPT !.parsed.Rounds = Append(@,
            [RoundNumber |-> f.currentRound,
             WinnerSide |-> e.Winner,
             WinReason |-> e.Reason,
             CTScore |-> e.CTScore,
             TScore |-> e.TScore,
             DurationSeconds |-> RoundDuration(e.tick, f.startTick),
             RoundData |-> {}])]

OnRoundEnd(f, e) ==
    [f EXCEPT !.parsed.Rounds = Append(@,
        [RoundNumber |-> f.currentRound,
         WinnerSide |-> e.Winner,
         WinReason |-> e.Reason,
         CTScore |-> e.CTScore,
         TScore |-> e.TScore,
         DurationSeconds |-> RoundDuration(e.tick, f.startTick),
         RoundData |-> {}])]



\* Mutant: the newest event put first.
OnKillNewestFirst(f, e) ==
    [f EXCEPT
        !.playerStats =
            CountAssister(CountVictim(CountKiller(@, e.Killer), e.Victim), e.Assister),
        !.parsed.Events =
            <<[EventType |-> "kill",
               Tick |-> e.tick,
               RoundNumber |-> f.currentRound,
               EventData |-> KillEventData(e)]>> \o @]

\* Mutant: the event's round derived from the rounds completed so far.
OnKillRoundFromRecords(f, e) ==
    [f EXCEPT
        !.playerStats =
            CountAssister(CountVictim(CountKiller(@, e.Killer), e.Victim), e.Assister),
        !.parsed.Events = Append(@,
            [EventType |-> "kill",
             Tick |-> e.tick,
             RoundNumber |-> Len(f.parsed.Rounds) + 1,
             EventData |-> KillEventData(e)])]

OnKill(f, e) ==
    [f EXCEPT
        !.playerStats =
            CountAssister(CountVictim(CountKiller(@, e.Killer), e.Victim), e.Assister),
        !.parsed.Events = Append(@,
            [EventType |-> "kill",
             Tick |-> e.tick,
             RoundNumber |-> f.currentRound,
             EventData |-> KillEventData(e)])]

Handle(f, e) ==
    IF e.type = "RoundStart" THEN OnRoundStart(f, e)
    ELSE IF e.type = "RoundEnd" THEN OnRoundEnd(f, e)
    ELSE OnKill(f, e)

\* The signals the replay source can deliver.
RoundStartSignals == { [type |-> "RoundStart", tick |-> t] : t \in Ticks }

RoundEndSignals ==
    { [type |-> "RoundEnd", tick |-> t, Winner |-> e.Winner, Reason |-> e.Reason,
       CTScore |-> e.CTScore, TScore |-> e.TScore] : t \in Ticks, e \in RoundEndInputs }

KillSignals ==
    { [type |-> "Kill", tick |-> t, Killer |-> e.Killer, Victim |-> e.Victim,
       Assister |-> e.Assister, Weapon |-> e.Weapon, IsHeadshot |-> e.IsHeadshot,
       PenetratedObjects |-> e.PenetratedObjects] : t \in Ticks, e \in KillInputs }

\* The orders a range over the map playerStats can take.
Orders(S) ==
    { o \in [1..Cardinality(S) -> S] : \A i, j \in 1..Cardinality(S) : o[i] = o[j] => i = j }

\* Mutant: every element appended is the loop variable as it stands after the
\* last iteration.
DrainPlayersLoopVariable(stats, o) ==
    [i \in 1..Len(o) |-> stats[o[Len(o)]]]

\* parsed.Players after the loop over playerStats taken in order o.
DrainPlayers(stats, o) ==
    [i \in 1..Len(o) |-> stats[o[i]]]

HeaderMetadata(h) ==
    [MapName |-> h.MapName,
     Duration |-> GoIntOfMilli(h.PlaybackMillis),
     TickRate |-> GoIntOfMilli(h.FrameRateMilli)]

\* What parseDemo returns on a clean end of the stream, the map ranged over
\* in order o.
Finish(f, o) ==
    [f.parsed EXCEPT !.Players = DrainPlayers(f.playerStats, o),
                     !.Metadata = HeaderMetadata(f.header)]

\* json.Marshal(data): the fields under their json tags.
MarshalPlayer(p) ==
    [steamId |-> p.SteamID, name |-> p.Name, team |-> p.Team, kills |-> p.Kills,
     deaths |-> p.Deaths, assists |-> p.Assists, adr |-> p.ADR, hsp |-> p.HSP,
     kast |-> p.KAST, rating |-> p.Rating, stats |-> p.Stats]

MarshalRound(x) ==
    [roundNumber |-> x.RoundNumber, winnerSide |-> x.WinnerSide,
     winReason |-> x.WinReason, ctScore |-> x.CTScore, tScore |-> x.TScore,
     durationSeconds |-> x.DurationSeconds, roundData |-> x.RoundData]

MarshalEvent(x) ==
    [eventType |-> x.EventType, tick |-> x.Tick, roundNumber |-> x.RoundNumber,
     eventData |-> x.EventData]

Marshal(data) ==
    [demoId |-> data.DemoID,
     players |-> [i \in 1..Len(data.Players) |-> MarshalPlayer(data.Players[i])],
     rounds |-> [i \in 1..Len(data.Rounds) |-> MarshalRound(data.Rounds[i])],
     events |-> [i \in 1..Len(data.Events) |-> MarshalEvent(data.Events[i])],
     metadata |-> [mapName |-> data.Metadata.MapName,
                   duration |-> data.Metadata.Duration,
                   tickRate |-> data.Metadata.TickRate]]

\* ------------------------------------------------------------- state
SuccessBody == "{\"status\":\"success\"}"

Response(status, body) == <<[status |-> status, body |-> body]>>

Init ==
    /\ fetched = [r \in Requests |-> <<>>]
    /\ pc = [r \in Requests |-> "idle"]
    /\ request = [r \in Requests |-> <<>>]
    /\ resp = [r \in Requests |-> <<>>]
    /\ started = [r \in Requests |-> <<>>]
    /\ succeeded = [r \in Requests |-> {}]
    /\ attempts = [r \in Requests |-> 0]
    /\ reply = [r \in Requests |-> <<>>]
    /\ stream = [r \in Requests |-> <<>>]
    /\ frame = [r \in Requests |-> <<>>]
    /\ parsedData = [r \in Requests |-> <<>>]
    /\ wire = [r \in Requests |-> <<>>]

\* The handler returns: its locals are gone, the response stays.
Return(r, status, body) ==
    /\ pc' = [pc EXCEPT ![r] = "done"]
    /\ resp' = [resp EXCEPT ![r] = Response(status, body)]
    /\ frame' = [frame EXCEPT ![r] = <<>>]
    /\ parsedData' = [parsedData EXCEPT ![r] = <<>>]
    /\ wire' = [wire EXCEPT ![r] = <<>>]

\* Mutant: the body decoded before the method is looked at.
ReceiveDecodesFirst(r) ==
    /\ pc[r] = "idle"
    /\ \E m \in Methods, b \in Bodies :
        /\ request' = [request EXCEPT ![r] = <<[Method |-> m, Body |-> b]>>]
        /\ IF ~b.ok
           THEN /\ Return(r, StatusBadRequest, "error")
                /\ UNCHANGED started
           ELSE IF m # "POST"
           THEN /\ Return(r, StatusMethodNotAllowed, "Method not allowed")
                /\ UNCHANGED started
           ELSE /\ pc' = [pc EXCEPT ![r] = "download"]
                /\ started' = [started EXCEPT ![r] = Append(@, "download")]
                /\ UNCHANGED <<resp, frame, parsedData, wire>>
    /\ UNCHANGED <<succeeded, attempts, reply, fetched, stream>>

\* Mutant: the method not looked at.
ReceiveAnyMethod(r) ==
    /\ pc[r] = "idle"
    /\ \E m \in Methods, b \in Bodies :
        /\ request' = [request EXCEPT ![r] = <<[Method |-> m, Body |-> b]>>]
        /\ IF ~b.ok
           THEN /\ Return(r, StatusBadRequest, "error")
                /\ UNCHANGED started
           ELSE /\ pc' = [pc EXCEPT ![r] = "download"]
                /\ started' = [started EXCEPT ![r] = Append(@, "download")]
                /\ UNCHANGED <<resp, frame, parsedData, wire>>
    /\ UNCHANGED <<succeeded, attempts, reply, fetched, stream>>

\* parseHandler up to the call of downloadDemo.
Receive(r) ==
    /\ pc[r] = "idle"
    /\ \E m \in Methods, b \in Bodies :
        /\ request' = [request EXCEPT ![r] = <<[Method |-> m, Body |-> b]>>]
        /\ IF m # "POST"
           THEN /\ Return(r, StatusMethodNotAllowed, "Method not allowed")
                /\ UNCHANGED started
           ELSE IF ~b.ok
           THEN /\ Return(r, StatusBadRequest, "error")
                /\ UNCHANGED started
           ELSE /\ pc' = [pc EXCEPT ![r] = "download"]
                /\ started' = [started EXCEPT ![r] = Append(@, "download")]
                /\ UNCHANGED <<resp, frame, parsedData, wire>>
    /\ UNCHANGED <<succeeded, attempts, reply, fetched, stream>>


\* Mutant: downloadDemo takes every status below 300 for a success.
DownloadDoneAnySuccessClass(r) ==
    /\ pc[r] = "download"
    /\ \E urlOK \in BOOLEAN, readOK \in BOOLEAN, out \in HttpOutcomes, h \in Headers :
        /\ fetched' = [fetched EXCEPT ![r] = IF urlOK THEN <<out>> ELSE <<>>]
        /\ IF urlOK /\ ~out.err /\ out.status < 300 /\ readOK
           THEN /\ pc' = [pc EXCEPT ![r] = "parsing"]
                /\ succeeded' = [succeeded EXCEPT ![r] = @ \cup {"download"}]
                /\ started' = [started EXCEPT ![r] = Append(@, "parse")]
                /\ frame' = [frame EXCEPT ![r] = <<NewFrame(request[r][1].Body.DemoID, h)>>]
                /\ UNCHANGED <<resp, parsedData, wire>>
           ELSE /\ Return(r, StatusInternalServerError, "error")
                /\ UNCHANGED <<succeeded, started>>
    /\ UNCHANGED <<request, attempts, reply, stream>>

\* downloadDemo returns; on success parseDemo starts and sets up its locals.
DownloadDone(r) ==
    /\ pc[r] = "download"
    /\ \E urlOK \in BOOLEAN, readOK \in BOOLEAN, out \in HttpOutcomes, h \in Headers :
        /\ fetched' = [fetched EXCEPT ![r] = IF urlOK THEN <<out>> ELSE <<>>]
        /\ IF urlOK /\ ~out.err /\ out.status = StatusOK /\ readOK
           THEN /\ pc' = [pc EXCEPT ![r] = "parsing"]
                /\ succeeded' = [succeeded EXCEPT ![r] = @ \cup {"download"}]
                /\ started' = [started EXCEPT ![r] = Append(@, "parse")]
                /\ frame' = [frame EXCEPT ![r] = <<NewFrame(request[r][1].Body.DemoID, h)>>]
                /\ UNCHANGED <<resp, parsedData, wire>>
           ELSE /\ Return(r, StatusInternalServerError, "error")
                /\ UNCHANGED <<succeeded, started>>
    /\ UNCHANGED <<request, attempts, reply, stream>>

\* Mutant: currentRound kept in a package-level variable all requests share.
DeliverSharedCounter(r, e) ==
    /\ pc[r] = "parsing"
    /\ Len(stream[r]) < MaxEvents
    /\ stream' = [stream EXCEPT ![r] = Append(@, e)]
    /\ frame' = [q \in Requests |->
            IF frame[q] = <<>> THEN <<>>
            ELSE IF q = r
            THEN <<Handle(frame[q][1], e)>>
            ELSE <<[frame[q][1] EXCEPT !.currentRound = Handle(frame[r][1], e).currentRound]>>]
    /\ UNCHANGED <<pc, request, resp, started, succeeded, attempts, reply, fetched, parsedData, wire>>

\* The parser dispatches signal e to the handler registered for its type.
Deliver(r, e) ==
    /\ pc[r] = "parsing"
    /\ Len(stream[r]) < MaxEvents
    /\ stream' = [stream EXCEPT ![r] = Append(@, e)]
    /\ frame' = [frame EXCEPT ![r] = <<Handle(@[1], e)>>]
    /\ UNCHANGED <<pc, request, resp, started, succeeded, attempts, reply, fetched, parsedData, wire>>

RoundStart(r) == \E e \in RoundStartSignals : Deliver(r, e)

RoundEnd(r) == \E e \in RoundEndSignals : Deliver(r, e)

Kill(r) == \E e \in KillSignals : Deliver(r, e)

\* Mutant: the error of p.ParseToEnd() dropped, what was aggregated so far
\* returned.
ParseFaultReturnsPartial(r) ==
    /\ pc[r] = "parsing"
    /\ pc' = [pc EXCEPT ![r] = "deliver"]
    /\ parsedData' = [parsedData EXCEPT ![r] = <<frame[r][1].parsed>>]
    /\ frame' = [frame EXCEPT ![r] = <<>>]
    /\ UNCHANGED <<request, resp, started, succeeded, attempts, reply, fetched, stream, wire>>

\* p.ParseToEnd() returns an error: parseDemo returns nil, err.
ParseFault(r) ==
    /\ pc[r] = "parsing"
    /\ Return(r, StatusInternalServerError, "error")
    /\ UNCHANGED <<request, started, succeeded, attempts, reply, fetched, stream>>

\* p.ParseToEnd() returns nil: the players are drained, the metadata set and
\* parsed returned.
ParseComplete(r) ==
    /\ pc[r] = "parsing"
    /\ \E o \in Orders(DOMAIN frame[r][1].playerStats) :
        parsedData' = [parsedData EXCEPT ![r] = <<Finish(frame[r][1], o)>>]
    /\ pc' = [pc EXCEPT ![r] = "deliver"]
    /\ succeeded' = [succeeded EXCEPT ![r] = @ \cup {"parse"}]
    /\ frame' = [frame EXCEPT ![r] = <<>>]
    /\ UNCHANGED <<request, resp, started, attempts, reply, fetched, stream, wire>>

\* sendToWebhook up to client.Do: the request is built and transmitted.
SendToWebhook(r) ==
    /\ pc[r] = "deliver"
    /\ started' = [started EXCEPT ![r] = Append(@, "deliver")]
    /\ \E urlOK \in BOOLEAN :
        IF urlOK
        THEN /\ attempts' = [attempts EXCEPT ![r] = @ + 1]
             /\ wire' = [wire EXCEPT ![r] = <<Marshal(parsedData[r][1])>>]
             /\ pc' = [pc EXCEPT ![r] = "awaiting"]
             /\ UNCHANGED <<resp, frame, parsedData>>
        ELSE /\ Return(r, StatusInternalServerError, "error")
             /\ UNCHANGED attempts
    /\ UNCHANGED <<request, succeeded, reply, fetched, stream>>

\* Mutant: parseHandler does not look at the error sendToWebhook returns.
WebhookResponseErrorIgnored(r) ==
    /\ pc[r] = "awaiting"
    /\ \E out \in HttpOutcomes :
        /\ reply' = [reply EXCEPT ![r] = <<out>>]
        /\ succeeded' = [succeeded EXCEPT ![r] =
                IF ~out.err /\ out.status = StatusOK THEN @ \cup {"deliver"} ELSE @]
        /\ Return(r, StatusOK, SuccessBody)
    /\ UNCHANGED <<request, started, attempts, fetched, stream>>

\* Mutant: sendToWebhook does not look at the status of the response.
WebhookResponseAnyStatus(r) ==
    /\ pc[r] = "awaiting"
    /\ \E out \in HttpOutcomes :
        /\ reply' = [reply EXCEPT ![r] = <<out>>]
        /\ IF ~out.err
           THEN /\ succeeded' = [succeeded EXCEPT ![r] = @ \cup {"deliver"}]
                /\ Return(r, StatusOK, SuccessBody)
           ELSE /\ Return(r, StatusInternalServerError, "error")
                /\ UNCHANGED succeeded
    /\ UNCHANGED <<request, started, attempts, fetched, stream>>

\* client.Do returns in sendToWebhook; parseHandler writes its response.
WebhookResponse(r) ==
    /\ pc[r] = "awaiting"
    /\ \E out \in HttpOutcomes :
        /\ reply' = [reply EXCEPT ![r] = <<out>>]
        /\ IF ~out.err /\ out.status = StatusOK
           THEN /\ succeeded' = [succeeded EXCEPT ![r] = @ \cup {"deliver"}]
                /\ Return(r, StatusOK, SuccessBody)
           ELSE /\ Return(r, StatusInternalServerError, "error")
                /\ UNCHANGED succeeded
    /\ UNCHANGED <<request, started, attempts, fetched, stream>>

Next ==
    \E r \in Solo :
        \/ Receive(r)
        \/ DownloadDone(r)
        \/ RoundStart(r)
        \/ RoundEnd(r)
        \/ Kill(r)
        \/ ParseFault(r)
        \/ ParseComplete(r)
        \/ SendToWebhook(r)
        \/ WebhookResponse(r)

Spec == Init /\ [][Next]_vars


\* Several requests served at once, each in a goroutine of its own, all past
\* their downloads: the handlers of the requests run interleaved in any order.
ConcInit ==
    /\ fetched = [r \in Requests |-> <<[err |-> FALSE, status |-> StatusOK]>>]
    /\ pc = [r \in Requests |-> "parsing"]
    /\ request = [r \in Requests |-> <<[Method |-> "POST",
                      Body |-> [ok |-> TRUE, DemoID |-> "demo-1", FilePath |-> "match.dem"]]>>]
    /\ resp = [r \in Requests |-> <<>>]
    /\ started = [r \in Requests |-> <<"download", "parse">>]
    /\ succeeded = [r \in Requests |-> {"download"}]
    /\ attempts = [r \in Requests |-> 0]
    /\ reply = [r \in Requests |-> <<>>]
    /\ stream = [r \in Requests |-> <<>>]
    /\ \E hs \in [Requests -> Headers] :
        frame = [r \in Requests |-> <<NewFrame("demo-1", hs[r])>>]
    /\ parsedData = [r \in Requests |-> <<>>]
    /\ wire = [r \in Requests |-> <<>>]

\* The signals dispatched so far, over the requests in S.
RECURSIVE Dispatched(_)
Dispatched(S) ==
    IF S = {} THEN 0
    ELSE LET r == CHOOSE x \in S : TRUE
         IN  Len(stream[r]) + Dispatched(S \ {r})

ConcDeliver(r) ==
    /\ Dispatched(Requests) < MaxConcEvents
    /\ \E e \in RoundStartSignals \cup RoundEndSignals \cup KillSignals : Deliver(r, e)

ConcNext ==
    \E r \in Requests :
        \/ ConcDeliver(r)
        \/ ParseFault(r)
        \/ ParseComplete(r)

ConcSpec == ConcInit /\ [][ConcNext]_vars

\* Two runs of parseDemo over one downloaded replay: both parsers hold the
\* same header and are delivered the same signals, each run drains its own
\* map in an order of its own.
TwinInit ==
    /\ fetched = [r \in Requests |-> <<[err |-> FALSE, status |-> StatusOK]>>]
    /\ pc = [r \in Requests |-> "parsing"]
    /\ request = [r \in Requests |-> <<[Method |-> "POST",
                      Body |-> [ok |-> TRUE, DemoID |-> "demo-1", FilePath |-> "match.dem"]]>>]
    /\ resp = [r \in Requests |-> <<>>]
    /\ started = [r \in Requests |-> <<"download", "parse">>]
    /\ succeeded = [r \in Requests |-> {"download"}]
    /\ attempts = [r \in Requests |-> 0]
    /\ reply = [r \in Requests |-> <<>>]
    /\ stream = [r \in Requests |-> <<>>]
    /\ \E h \in Headers : frame = [r \in Requests |-> <<NewFrame("demo-1", h)>>]
    /\ parsedData = [r \in Requests |-> <<>>]
    /\ wire = [r \in Requests |-> <<>>]

TwinDeliver ==
    /\ \A r \in Requests : pc[r] = "parsing" /\ Len(stream[r]) < MaxTwinEvents
    /\ \E e \in RoundStartSignals \cup RoundEndSignals \cup KillSignals :
        /\ stream' = [r \in Requests |-> Append(stream[r], e)]
        /\ frame' = [r \in Requests |-> <<Handle(frame[r][1], e)>>]
    /\ UNCHANGED <<pc, request, resp, started, succeeded, attempts, reply, fetched, parsedData, wire>>

TwinComplete == \E r \in Requests : ParseComplete(r)

TwinNext == TwinDeliver \/ TwinComplete

TwinSpec == TwinInit /\ [][TwinNext]_vars

\* Two runs of parseDemo over replays that hold the same signals under
\* different headers.
HeaderTwinInit ==
    /\ fetched = [r \in Requests |-> <<[err |-> FALSE, status |-> StatusOK]>>]
    /\ pc = [r \in Requests |-> "parsing"]
    /\ request = [r \in Requests |-> <<[Method |-> "POST",
                      Body |-> [ok |-> TRUE, DemoID |-> "demo-1", FilePath |-> "match.dem"]]>>]
    /\ resp = [r \in Requests |-> <<>>]
    /\ started = [r \in Requests |-> <<"download", "parse">>]
    /\ succeeded = [r \in Requests |-> {"download"}]
    /\ attempts = [r \in Requests |-> 0]
    /\ reply = [r \in Requests |-> <<>>]
    /\ stream = [r \in Requests |-> <<>>]
    /\ \E hs \in [Requests -> Headers] :
        /\ \A a, b \in Requests : a # b => hs[a] # hs[b]
        /\ frame = [r \in Requests |-> <<NewFrame("demo-1", hs[r])>>]
    /\ parsedData = [r \in Requests |-> <<>>]
    /\ wire = [r \in Requests |-> <<>>]

HeaderTwinSpec == HeaderTwinInit /\ [][TwinNext]_vars

\* ------------------------------------------------------------- claims
\* The positions of the signals of type t in stream s.
At(s, t) == { i \in 1..Len(s) : s[i].type = t }

\* q is a / b truncated toward zero (b > 0), said without any division.
IsTruncatedQuotient(q, a, b) ==
    IF a >= 0
    THEN q >= 0 /\ q * b <= a /\ a < (q + 1) * b
    ELSE q <= 0 /\ q * b >= a /\ a > (q - 1) * b

\* The stream has exactly one round-start and, later, exactly one round-end.
OneRound(s) ==
    /\ Cardinality(At(s, "RoundStart")) = 1
    /\ Cardinality(At(s, "RoundEnd")) = 1
    /\ \A i \in At(s, "RoundStart"), j \in At(s, "RoundEnd") : i < j

\* C1: when parseDemo returns a Result for a stream with exactly one
\* round-start followed later by exactly one round-end (kills anywhere),
\* Rounds has exactly one entry, its round number is 1 and its duration is
\* (tick at the round-end - tick at the round-start) / 128 truncated toward
\* zero.
C1_OneRoundOneRecord ==
    \A r \in Requests :
        (parsedData[r] # <<>> /\ OneRound(stream[r])) =>
            LET rounds == parsedData[r][1].Rounds
                i == CHOOSE x \in At(stream[r], "RoundStart") : TRUE
                j == CHOOSE x \in At(stream[r], "RoundEnd") : TRUE
            IN  /\ Len(rounds) = 1
                /\ rounds[1].RoundNumber = 1
                /\ IsTruncatedQuotient(rounds[1].DurationSeconds,
                                       stream[r][j].tick - stream[r][i].tick, 128)

\* A Result for kill, round-start at tick 1280, round-end at tick -127: the
\* difference -1407 is negative and no multiple of 128, the duration is -10.
C1_Witness ==
    \E r \in Requests :
        /\ parsedData[r] # <<>>
        /\ OneRound(stream[r])
        /\ At(stream[r], "Kill") # {}
        /\ parsedData[r][1].Rounds[1].DurationSeconds = -10

\* C10: while parseDemo runs, the round counter equals the number of
\* round-start signals processed so far (so N round-starts and no round-end
\* give counter N with Rounds empty; round-end and kill signals leave it
\* alone, and it never decreases), and round-start signals add nothing to
\* Rounds or Events: these hold one record per round-end and per kill signal.
C10_CounterCountsRoundStarts ==
    \A r \in Requests :
        frame[r] # <<>> =>
            /\ frame[r][1].currentRound = Cardinality(At(stream[r], "RoundStart"))
            /\ Len(frame[r][1].parsed.Rounds) = Cardinality(At(stream[r], "RoundEnd"))
            /\ Len(frame[r][1].parsed.Events) = Cardinality(At(stream[r], "Kill"))

\* Three round-starts, no round-end: the counter is 3, Rounds is empty.
C10_Witness ==
    \E r \in Requests :
        /\ frame[r] # <<>>
        /\ Cardinality(At(stream[r], "RoundStart")) = 3
        /\ frame[r][1].currentRound = 3
        /\ frame[r][1].parsed.Rounds = <<>>
        /\ frame[r][1].parsed.Events = <<>>

\* Counter c of the accumulator of identity id, 0 while there is none.
Cnt(stats, id, c) == IF id \in DOMAIN stats THEN stats[id][c] ELSE 0

Last(s) == s[Len(s)]

\* This step is the Kill handler of request r running on Last(stream'[r]).
KillStep(r) ==
    /\ frame[r] # <<>>
    /\ frame'[r] # <<>>
    /\ Len(stream'[r]) = Len(stream[r]) + 1
    /\ Last(stream'[r]).type = "Kill"

\* The kill signal names a killer and a victim of different identities.
KillerAndVictim(e) ==
    /\ e.Killer # NilPlayer
    /\ e.Victim # NilPlayer
    /\ e.Killer.SteamID64 # e.Victim.SteamID64

\* What a kill signal with killer K and victim V does to K's and V's own
\* counters.
KillerVictimEffect(old, new, e) ==
    LET K == e.Killer.SteamID64
        V == e.Victim.SteamID64
        A == e.Assister.SteamID64
    IN  /\ Cnt(new, K, "Kills") = Cnt(old, K, "Kills") + 1
        /\ Cnt(new, V, "Deaths") = Cnt(old, V, "Deaths") + 1
        /\ A \notin {K, V} =>
            /\ Cnt(new, K, "Deaths") = Cnt(old, K, "Deaths")
            /\ Cnt(new, K, "Assists") = Cnt(old, K, "Assists")
            /\ Cnt(new, V, "Kills") = Cnt(old, V, "Kills")
            /\ Cnt(new, V, "Assists") = Cnt(old, V, "Assists")

\* The accumulators of the identities outside S are the same before and after.
OthersUnchanged(old, new, S) ==
    \A id \in (DOMAIN old \cup DOMAIN new) \ S :
        id \in DOMAIN old /\ id \in DOMAIN new /\ new[id] = old[id]

\* C2 as claimed: a kill signal with killer K and victim V, K # V, adds 1 to
\* K's kills and 1 to V's deaths and leaves every other accumulator (and K's
\* deaths/assists, V's kills/assists when neither is the assister) unchanged.
C2_Original ==
    [][\A r \in Requests :
        (KillStep(r) /\ KillerAndVictim(Last(stream'[r]))) =>
            LET e == Last(stream'[r])
                old == frame[r][1].playerStats
                new == frame'[r][1].playerStats
            IN  /\ KillerVictimEffect(old, new, e)
                /\ OthersUnchanged(old, new, {e.Killer.SteamID64, e.Victim.SteamID64})
      ]_vars

\* C2 amended: a kill signal with killer K and victim V, K # V, adds 1 to K's
\* kills and 1 to V's deaths, leaves K's deaths/assists and V's kills/assists
\* unchanged when neither is the assister, adds 1 to the assists of the
\* assister when there is one (and nothing else to a third-party assister),
\* and leaves the accumulators of all identities other than K, V and the
\* assister unchanged.
C2_KillerVictimAssister ==
    [][\A r \in Requests :
        (KillStep(r) /\ KillerAndVictim(Last(stream'[r]))) =>
            LET e == Last(stream'[r])
                old == frame[r][1].playerStats
                new == frame'[r][1].playerStats
                K == e.Killer.SteamID64
                V == e.Victim.SteamID64
                A == e.Assister.SteamID64
            IN  /\ KillerVictimEffect(old, new, e)
                /\ OthersUnchanged(old, new, {K, V, A})
                /\ e.Assister # NilPlayer =>
                    /\ Cnt(new, A, "Assists") = Cnt(old, A, "Assists") + 1
                    /\ A \notin {K, V} =>
                        /\ Cnt(new, A, "Kills") = Cnt(old, A, "Kills")
                        /\ Cnt(new, A, "Deaths") = Cnt(old, A, "Deaths")
      ]_vars

\* The Kill handler has just run on a signal with killer alice, victim bob
\* and assister carol, all three known before: each has the one counter raised.
C2_Witness ==
    \E r \in Requests :
        /\ frame[r] # <<>>
        /\ Len(stream[r]) = 2
        /\ stream[r][1].type = "Kill"
        /\ stream[r][2].type = "Kill"
        /\ KillerAndVictim(stream[r][2])
        /\ stream[r][2].Assister = carol
        /\ frame[r][1].playerStats[1].Kills = 2
        /\ frame[r][1].playerStats[2].Deaths = 2
        /\ frame[r][1].playerStats[3].Assists = 2

\* C9: a kill signal without assister changes no player's assist count,
\* creates accumulators for its killer and victim only, and appends one
\* EventRecord whose payload holds no assister reference.
C9_AbsentAssister ==
    [][\A r \in Requests :
        (KillStep(r) /\ Last(stream'[r]).Assister = NilPlayer) =>
            LET e == Last(stream'[r])
                old == frame[r][1].playerStats
                new == frame'[r][1].playerStats
                events == frame'[r][1].parsed.Events
            IN  /\ \A id \in DOMAIN old \cup DOMAIN new :
                    Cnt(new, id, "Assists") = Cnt(old, id, "Assists")
                /\ DOMAIN new =
                    DOMAIN old \cup ({e.Killer.SteamID64, e.Victim.SteamID64}
                                        \ {NilPlayer.SteamID64})
                /\ Len(events) = Len(frame[r][1].parsed.Events) + 1
                /\ DOMAIN Last(events).EventData =
                    {"killer", "victim", "weapon", "isHeadshot", "penetrated"}
      ]_vars

\* After a kill with assister carol, a kill without assister has been
\* processed: carol's assist count is still 1 and nobody else has one.
C9_Witness ==
    \E r \in Requests :
        /\ frame[r] # <<>>
        /\ Len(stream[r]) = 2
        /\ stream[r][1].type = "Kill" /\ stream[r][1].Assister = carol
        /\ stream[r][2].type = "Kill" /\ stream[r][2].Assister = NilPlayer
        /\ Len(frame[r][1].parsed.Events) = 2
        /\ \A id \in DOMAIN frame[r][1].playerStats :
            frame[r][1].playerStats[id].Assists = (IF id = 3 THEN 1 ELSE 0)

\* ------------------------------------------------- the /parse pipeline
AllStages == <<"download", "parse", "deliver">>

Range(s) == { s[i] : i \in 1..Len(s) }

IsPrefix(s, t) == Len(s) <= Len(t) /\ \A i \in 1..Len(s) : s[i] = t[i]

\* The response of request r is {"status": "success"}.
Success(r) ==
    resp[r] # <<>> /\ resp[r][1].status = 200 /\ resp[r][1].body = SuccessBody

Answered(r, status) ==
    pc[r] = "done" /\ resp[r] # <<>> /\ resp[r][1].status = status /\ ~Success(r)

\* The request is not a POST, or its body is not JSON.
Malformed(r) ==
    request[r] # <<>> /\ (request[r][1].Method # "POST" \/ ~request[r][1].Body.ok)

\* parseDemo was called for request r and returned an error.
DecodeFailed(r) ==
    /\ "parse" \in Range(started[r])
    /\ "parse" \notin succeeded[r]
    /\ pc[r] # "parsing"

\* The handler of request r has returned without all three stages succeeding.
Failed(r) == pc[r] = "done" /\ succeeded[r] # Range(AllStages)

\* C3: a decode fault, after whatever signals, ends the request with no
\* Result, nothing transmitted and no call of the delivery client.
C3_FaultYieldsNothing ==
    \A r \in Requests :
        DecodeFailed(r) =>
            /\ pc[r] = "done"
            /\ parsedData[r] = <<>>
            /\ started[r] = <<"download", "parse">>
            /\ attempts[r] = 0
            /\ reply[r] = <<>>
            /\ wire[r] = <<>>
            /\ Answered(r, 500)

\* A fault after a round-start, a kill and a round-end were processed.
C3_Witness ==
    \E r \in Requests :
        /\ DecodeFailed(r)
        /\ Len(stream[r]) = 3
        /\ At(stream[r], "RoundStart") # {}
        /\ At(stream[r], "Kill") # {}
        /\ At(stream[r], "RoundEnd") # {}

\* C4: the stages called are a prefix of download, parse, deliver (each at
\* most once, in that order, none again), a stage is called only after the
\* one before it succeeded, the webhook is called at most once, and the
\* response is {"status": "success"} exactly when all three succeeded.
C4_SequentialChain ==
    \A r \in Requests :
        /\ IsPrefix(started[r], AllStages)
        /\ \A i \in 2..Len(started[r]) : started[r][i - 1] \in succeeded[r]
        /\ succeeded[r] \subseteq Range(started[r])
        /\ attempts[r] <= 1
        /\ Success(r) <=> succeeded[r] = Range(AllStages)
        /\ resp[r] # <<>> <=> pc[r] = "done"

\* A request answered with success after all three stages, three signals
\* processed.
C4_Witness ==
    \E r \in Requests :
        /\ Success(r)
        /\ started[r] = AllStages
        /\ attempts[r] = 1
        /\ Len(stream[r]) = 3

\* C5 as claimed: every failure kind ends the request with a server-side
\* error status.
C5_Original ==
    \A r \in Requests :
        (Failed(r) \/ Malformed(r)) =>
            /\ pc[r] = "done"
            /\ resp[r] # <<>>
            /\ resp[r][1].status >= 500

\* C5 amended: every failure kind ends the request at the failing step (no
\* later stage is called) with an error status and never with success: a
\* malformed request with the client-error status 405 or 400, a download,
\* decode or delivery failure with the server-error status 500.
C5_FailureAborts ==
    \A r \in Requests :
        /\ Malformed(r) =>
            /\ started[r] = <<>>
            /\ Answered(r, 405) \/ Answered(r, 400)
        /\ (Failed(r) /\ ~Malformed(r)) =>
            /\ Len(started[r]) = Cardinality(succeeded[r]) + 1
            /\ Answered(r, 500)
        /\ (reply[r] # <<>> /\ (reply[r][1].err \/ reply[r][1].status # 200)) =>
            Answered(r, 500)

\* A delivery failure (the receiver answered 500) reported with status 500.
C5_Witness ==
    \E r \in Requests :
        /\ Failed(r)
        /\ started[r] = AllStages
        /\ reply[r] = <<[err |-> FALSE, status |-> 500]>>
        /\ Answered(r, 500)

\* C6: a request that is not a POST is answered 405, whatever its body; a
\* POST whose body is not JSON is answered 400; neither calls a stage.  A
\* well-formed POST whose download, decode or delivery fails is answered 500.
C6_StatusPerFailure ==
    \A r \in Requests :
        request[r] # <<>> =>
            LET q == request[r][1]
                untouched == /\ started[r] = <<>>
                             /\ attempts[r] = 0
                             /\ stream[r] = <<>>
                             /\ wire[r] = <<>>
            IN  /\ q.Method # "POST" => Answered(r, 405) /\ untouched
                /\ (q.Method = "POST" /\ ~q.Body.ok) => Answered(r, 400) /\ untouched
                /\ (q.Method = "POST" /\ q.Body.ok /\ Failed(r)) =>
                        Answered(r, 500) /\ started[r] # <<>>

\* A GET with a body that is not JSON, answered 405.
C6_Witness ==
    \E r \in Requests :
        /\ request[r] # <<>>
        /\ request[r][1].Method = "GET"
        /\ ~request[r][1].Body.ok
        /\ Answered(r, 405)

\* sendToWebhook was called for request r and has returned.
Delivered(r) == "deliver" \in Range(started[r]) /\ pc[r] = "done"

SuccessClass(out) == ~out.err /\ out.status >= 200 /\ out.status <= 299

\* Success is reported only on a success-class response.
SuccessOnlyOnSuccessClass(r) ==
    /\ "deliver" \in succeeded[r] => (reply[r] # <<>> /\ SuccessClass(reply[r][1]))
    /\ (reply[r] = <<>> \/ ~SuccessClass(reply[r][1])) =>
            ("deliver" \notin succeeded[r] /\ Answered(r, 500))

\* C7 as claimed: every call of the delivery client transmits exactly once,
\* and reports success only on a success-class response.
C7_Original ==
    \A r \in Requests :
        Delivered(r) => (attempts[r] = 1 /\ SuccessOnlyOnSuccessClass(r))

\* C7 amended: a call of the delivery client transmits at most once: exactly
\* once when it got a response or a transport fault or reports success, not
\* at all when the request could not be built (reported as a failure too);
\* it reports success only on a success-class response, and a failure on any
\* other response and on a transport fault.
C7_AtMostOneTransmission ==
    \A r \in Requests :
        /\ attempts[r] <= 1
        /\ reply[r] # <<>> => attempts[r] = 1
        /\ pc[r] = "awaiting" => attempts[r] = 1
        /\ Delivered(r) =>
            /\ SuccessOnlyOnSuccessClass(r)
            /\ attempts[r] = 0 => (reply[r] = <<>> /\ Answered(r, 500))

\* One transmission, answered 500 by the receiver, reported as a failure.
C7_Witness ==
    \E r \in Requests :
        /\ Delivered(r)
        /\ attempts[r] = 1
        /\ reply[r] = <<[err |-> FALSE, status |-> 500]>>
        /\ "deliver" \notin succeeded[r]

\* ------------------------------------------------ two runs, one replay
\* s and t hold the same elements the same number of times.
SameBag(s, t) ==
    /\ Len(s) = Len(t)
    /\ \A x \in Range(s) \cup Range(t) :
        Cardinality({ i \in 1..Len(s) : s[i] = x }) =
            Cardinality({ i \in 1..Len(t) : t[i] = x })

\* C8: two runs of parseDemo that were delivered the same signals return
\* Results with the same Rounds and the same Events, in content and order,
\* and the same Players as unordered collections, whatever order each run
\* ranged over its map in.
C8_SameReplaySameResult ==
    \A a, b \in Requests :
        (parsedData[a] # <<>> /\ parsedData[b] # <<>> /\ stream[a] = stream[b]) =>
            /\ parsedData[a][1].Rounds = parsedData[b][1].Rounds
            /\ parsedData[a][1].Events = parsedData[b][1].Events
            /\ SameBag(parsedData[a][1].Players, parsedData[b][1].Players)

\* Both runs returned for a kill with three identities and a round-end, with
\* the three players in different orders.
C8_Witness ==
    \E a, b \in Requests :
        /\ parsedData[a] # <<>> /\ parsedData[b] # <<>>
        /\ stream[a] = stream[b]
        /\ Len(parsedData[a][1].Players) = 3
        /\ parsedData[a][1].Players # parsedData[b][1].Players
        /\ Len(parsedData[a][1].Rounds) = 1
        /\ Len(parsedData[a][1].Events) = 1

\* ------------------------------------------------- concurrent requests
\* parseDemo's locals after the signals of s, run alone from locals f.
RECURSIVE RunAlone(_, _)
RunAlone(f, s) ==
    IF s = <<>> THEN f
    ELSE Handle(RunAlone(f, SubSeq(s, 1, Len(s) - 1)), s[Len(s)])

\* C11: under every interleaving of the handlers of concurrent requests,
\* each request's counter, start tick, accumulator map, Rounds and Events are
\* those of a run of its own signals alone, and the Result it returns holds
\* those Rounds and Events and that map's players in some order.
C11_RequestsIsolated ==
    \A r \in Requests :
        LET alone == RunAlone(NewFrame(request[r][1].Body.DemoID, CHOOSE h \in Headers : TRUE),
                              stream[r])
        IN  /\ frame[r] # <<>> =>
                /\ frame[r][1].currentRound = alone.currentRound
                /\ frame[r][1].startTick = alone.startTick
                /\ frame[r][1].playerStats = alone.playerStats
                /\ frame[r][1].parsed.Rounds = alone.parsed.Rounds
                /\ frame[r][1].parsed.Events = alone.parsed.Events
            /\ parsedData[r] # <<>> =>
                /\ parsedData[r][1].Rounds = alone.parsed.Rounds
                /\ parsedData[r][1].Events = alone.parsed.Events
                /\ \E o \in Orders(DOMAIN alone.playerStats) :
                    parsedData[r][1].Players = [i \in 1..Len(o) |-> alone.playerStats[o[i]]]

\* Request 1 was delivered a round-start and request 2 a round-end, and both
\* returned: the round of request 2 carries number 0 and started at tick 0.
C11_Witness ==
    /\ parsedData[1] # <<>>
    /\ parsedData[2] # <<>>
    /\ Len(stream[1]) = 1 /\ stream[1][1].type = "RoundStart" /\ stream[1][1].tick = 1280
    /\ Len(stream[2]) = 1 /\ stream[2][1].type = "RoundEnd" /\ stream[2][1].tick = 1280
    /\ parsedData[2][1].Rounds[1].RoundNumber = 0
    /\ parsedData[2][1].Rounds[1].DurationSeconds = 10

\* ------------------------------------------------------- accumulators
\* The players signal e refers to, in the order its handler looks them up.
Referenced(e) ==
    IF e.type # "Kill" THEN <<>>
    ELSE (IF e.Killer # NilPlayer THEN <<e.Killer>> ELSE <<>>)
         \o (IF e.Victim # NilPlayer THEN <<e.Victim>> ELSE <<>>)
         \o (IF e.Assister # NilPlayer THEN <<e.Assister>> ELSE <<>>)

RECURSIVE Sightings(_)
Sightings(s) ==
    IF s = <<>> THEN <<>>
    ELSE Sightings(SubSeq(s, 1, Len(s) - 1)) \o Referenced(s[Len(s)])

Identities(sg) == { sg[i].SteamID64 : i \in 1..Len(sg) }

FirstSighting(sg, id) ==
    sg[CHOOSE i \in 1..Len(sg) :
        /\ sg[i].SteamID64 = id
        /\ \A j \in 1..(i - 1) : sg[j].SteamID64 # id]

FromFirstSighting(acc, sg, id) ==
    /\ acc.SteamID = ToString(id)
    /\ acc.Name = FirstSighting(sg, id).Name
    /\ acc.Team = TeamLabel(FirstSighting(sg, id).Team)

\* C12: the accumulator map holds exactly one entry per identity the kill
\* signals so far referred to as killer, victim or assister, and each entry's
\* name and team label are those of the identity's first sighting; the Result
\* lists one player per such identity, with that name and label.
C12_OneAccumulatorPerIdentity ==
    \A r \in Requests :
        LET sg == Sightings(stream[r])
        IN  /\ frame[r] # <<>> =>
                /\ DOMAIN frame[r][1].playerStats = Identities(sg)
                /\ \A id \in Identities(sg) :
                    FromFirstSighting(frame[r][1].playerStats[id], sg, id)
            /\ parsedData[r] # <<>> =>
                LET players == parsedData[r][1].Players
                IN  /\ Len(players) = Cardinality(Identities(sg))
                    /\ \A id \in Identities(sg) :
                        \E i \in 1..Len(players) : FromFirstSighting(players[i], sg, id)

\* Identity 1 is first sighted as "alice" of the terrorists and later as
\* "alicia" of the counter-terrorists.
C12_Witness ==
    /\ frame[1] # <<>>
    /\ Len(stream[1]) = 2
    /\ stream[1][1].type = "Kill" /\ stream[1][1].Killer = alice
    /\ stream[1][2].type = "Kill" /\ stream[1][2].Victim = alicia
    /\ frame[1][1].playerStats[1].Name = "alice"
    /\ frame[1][1].playerStats[1].Team = "T"
    /\ frame[1][1].playerStats[1].Deaths = 1

\* ------------------------------------------------ records and the stream
\* The Rounds and Events request r holds: parseDemo's while it runs, the
\* Result's once it returned.
Recorded(r) ==
    IF frame[r] # <<>> THEN <<frame[r][1].parsed>> ELSE parsedData[r]

\* The positions in s of the signals of the given type, in order.
RECURSIVE Positions(_, _)
Positions(s, type) ==
    IF s = <<>> THEN <<>>
    ELSE Positions(SubSeq(s, 1, Len(s) - 1), type)
         \o (IF s[Len(s)].type = type THEN <<Len(s)>> ELSE <<>>)

\* How many of the signals before position p of s are of the given type.
CountBefore(s, p, type) ==
    Cardinality({ i \in 1..(p - 1) : s[i].type = type })

\* C13: the k-th EventRecord carries the tick of the k-th kill signal and the
\* number of round-starts delivered before that kill (0 when none was), and
\* keeps both whatever signals follow.
C13_EventCarriesCounterAtKill ==
    \A r \in Requests :
        Recorded(r) # <<>> =>
            LET kills == Positions(stream[r], "Kill")
                events == Recorded(r)[1].Events
            IN  /\ Len(events) = Len(kills)
                /\ \A k \in 1..Len(kills) :
                    /\ events[k].Tick = stream[r][kills[k]].tick
                    /\ events[k].RoundNumber = CountBefore(stream[r], kills[k], "RoundStart")

\* A kill before any round-start, then a round-start: the event stays in
\* round 0 while the counter stands at 1.
C13_Witness ==
    /\ frame[1] # <<>>
    /\ Len(stream[1]) = 2
    /\ stream[1][1].type = "Kill"
    /\ stream[1][2].type = "RoundStart"
    /\ frame[1][1].currentRound = 1
    /\ frame[1][1].parsed.Events[1].RoundNumber = 0
    /\ frame[1][1].parsed.Events[1].Tick = stream[1][1].tick

\* C14: a round-end delivered before any round-start is not dropped: it has
\* its RoundRecord, in its place among the round-ends, with the signal's
\* outcome and the duration (tick at the round-end - 0) / 128 truncated
\* toward zero.
C14_UnstartedRoundRecorded ==
    \A r \in Requests :
        Recorded(r) # <<>> =>
            LET ends == Positions(stream[r], "RoundEnd")
                rounds == Recorded(r)[1].Rounds
            IN  \A k \in 1..Len(ends) :
                    CountBefore(stream[r], ends[k], "RoundStart") = 0 =>
                        /\ k <= Len(rounds)
                        /\ rounds[k].WinnerSide = stream[r][ends[k]].Winner
                        /\ rounds[k].WinReason = stream[r][ends[k]].Reason
                        /\ IsTruncatedQuotient(rounds[k].DurationSeconds,
                                               stream[r][ends[k]].tick - 0, TickRateConstant)

\* The Result of a stream that opens with a round-end at tick 1280 and has no
\* round-start at all: the record lasts 10 seconds.
C14_Witness ==
    /\ parsedData[1] # <<>>
    /\ stream[1] # <<>>
    /\ stream[1][1].type = "RoundEnd"
    /\ stream[1][1].tick = 1280
    /\ At(stream[1], "RoundStart") = {}
    /\ parsedData[1][1].Rounds[1].DurationSeconds = 10

\* C15 as stated: every RoundRecord's round number is at least 1 and the
\* numbers strictly increase in completion order.
C15_Original ==
    \A r \in Requests :
        Recorded(r) # <<>> =>
            LET rounds == Recorded(r)[1].Rounds
            IN  \A k \in 1..Len(rounds) :
                    /\ rounds[k].RoundNumber >= 1
                    /\ \A j \in 1..(k - 1) : rounds[j].RoundNumber < rounds[k].RoundNumber

\* The k-th round-end of s has a round-start of its own: one was delivered
\* before it and after the round-end before it, if there is one.
StartedSince(s, ends, k) ==
    \E i \in 1..(ends[k] - 1) :
        /\ s[i].type = "RoundStart"
        /\ k > 1 => i > ends[k - 1]

\* C15: every RoundRecord's round number is the number of round-starts
\* delivered before its round-end: the numbers never decrease in completion
\* order, and a record whose round-end has a round-start of its own has a
\* number of at least 1 that exceeds the number of every record before it.
C15_NumberCountsRoundStarts ==
    \A r \in Requests :
        Recorded(r) # <<>> =>
            LET ends == Positions(stream[r], "RoundEnd")
                rounds == Recorded(r)[1].Rounds
            IN  /\ Len(rounds) = Len(ends)
                /\ \A k \in 1..Len(ends) :
                    /\ rounds[k].RoundNumber = CountBefore(stream[r], ends[k], "RoundStart")
                    /\ \A j \in 1..(k - 1) : rounds[j].RoundNumber <= rounds[k].RoundNumber
                    /\ StartedSince(stream[r], ends, k) =>
                        /\ rounds[k].RoundNumber >= 1
                        /\ \A j \in 1..(k - 1) : rounds[j].RoundNumber < rounds[k].RoundNumber

\* A round-end, a round-start and a round-end: the records are numbered 0
\* and 1.
C15_Witness ==
    /\ parsedData[1] # <<>>
    /\ Len(stream[1]) = 3
    /\ stream[1][1].type = "RoundEnd"
    /\ stream[1][2].type = "RoundStart"
    /\ stream[1][3].type = "RoundEnd"
    /\ parsedData[1][1].Rounds[1].RoundNumber = 0
    /\ parsedData[1][1].Rounds[2].RoundNumber = 1

\* ------------------------------------------------- header independence
\* The start tick in force at position p of s: the tick of the last
\* round-start before p, 0 when there is none.
StartTickBefore(s, p) ==
    LET starts == { i \in 1..(p - 1) : s[i].type = "RoundStart" }
    IN  IF starts = {} THEN 0
        ELSE s[CHOOSE i \in starts : \A j \in starts : j <= i].tick

\* C16: two runs delivered the same signals under headers that differ hold
\* the same Rounds, each duration being the ticks since the start tick in
\* force divided by 128 and truncated, whatever frame rate the header states.
C16_RoundsIgnoreHeader ==
    \A a, b \in Requests :
        (Recorded(a) # <<>> /\ Recorded(b) # <<>> /\ stream[a] = stream[b]) =>
            LET ends == Positions(stream[a], "RoundEnd")
                rounds == Recorded(a)[1].Rounds
            IN  /\ rounds = Recorded(b)[1].Rounds
                /\ Len(rounds) = Len(ends)
                /\ \A k \in 1..Len(ends) :
                    IsTruncatedQuotient(rounds[k].DurationSeconds,
                        stream[a][ends[k]].tick - StartTickBefore(stream[a], ends[k]),
                        TickRateConstant)

\* Both runs returned for a round of 1407 ticks: the Results state tick rates
\* 64 and 127 and both say the round lasted 10 seconds.
C16_Witness ==
    /\ parsedData[1] # <<>> /\ parsedData[2] # <<>>
    /\ parsedData[1][1].Metadata.TickRate # parsedData[2][1].Metadata.TickRate
    /\ Len(stream[1]) = 2
    /\ stream[1][1].type = "RoundStart" /\ stream[1][1].tick = -127
    /\ stream[1][2].type = "RoundEnd" /\ stream[1][2].tick = 1280
    /\ parsedData[1][1].Rounds[1].DurationSeconds = 10
    /\ parsedData[2][1].Rounds[1].DurationSeconds = 10

\* ------------------------------------------------------------ metadata
\* n is the number given in thousandths as m, rounded to the nearest integer
\* (halves upward), said without any division.
IsNearestInteger(n, m) ==
    /\ 1000 * n - 500 <= m
    /\ m < 1000 * n + 500

\* n is the whole part of the non-negative number given in thousandths as m.
IsWholePart(n, m) ==
    /\ 1000 * n <= m
    /\ m < 1000 * (n + 1)

\* C17 as stated: when parseDemo completes cleanly, the Result's tick rate is
\* the header's frame rate rounded to the nearest integer and its duration is
\* the header's playback time in whole seconds.
C17_Original ==
    [][\A r \in Requests :
        (frame[r] # <<>> /\ parsedData'[r] # <<>>) =>
            /\ IsNearestInteger(parsedData'[r][1].Metadata.TickRate,
                                frame[r][1].header.FrameRateMilli)
            /\ IsWholePart(parsedData'[r][1].Metadata.Duration,
                           frame[r][1].header.PlaybackMillis)]_vars

\* ----------------------------------------------------------- append-only
\* t is s with exactly one element more, at its end.
OneAppended(s, t) ==
    /\ Len(t) = Len(s) + 1
    /\ SubSeq(t, 1, Len(s)) = s

\* C18: a step that delivers a round-end leaves Rounds as it was but for one
\* record more at its end, a step that delivers a kill does so with Events,
\* and every other step a request's Rounds and Events survive, the return of
\* the Result included, leaves both exactly as they were.
C18_AppendOnly ==
    [][\A r \in Requests :
        (Recorded(r) # <<>> /\ Recorded(r)' # <<>>) =>
            LET rounds == Recorded(r)[1].Rounds
                events == Recorded(r)[1].Events
                rounds2 == Recorded(r)'[1].Rounds
                events2 == Recorded(r)'[1].Events
                type == IF stream'[r] = stream[r] THEN "none" ELSE Last(stream'[r]).type
            IN  /\ IF type = "RoundEnd" THEN OneAppended(rounds, rounds2)
                                        ELSE rounds2 = rounds
                /\ IF type = "Kill" THEN OneAppended(events, events2)
                                    ELSE events2 = events]_vars

\* A kill, a round-end and a kill at different ticks were delivered: Events
\* holds the two kills in that order and Rounds the one round.
C18_Witness ==
    /\ frame[1] # <<>>
    /\ Len(stream[1]) = 3
    /\ stream[1][1].type = "Kill" /\ stream[1][1].tick = 1280
    /\ stream[1][2].type = "RoundEnd"
    /\ stream[1][3].type = "Kill" /\ stream[1][3].tick = -127
    /\ Len(frame[1][1].parsed.Rounds) = 1
    /\ Len(frame[1][1].parsed.Events) = 2
    /\ frame[1][1].parsed.Events[1].Tick = 1280
    /\ frame[1][1].parsed.Events[2].Tick = -127

\* ------------------------------------------------- absent killer or victim
Present(p) == IF p = NilPlayer THEN {} ELSE {p.SteamID64}

Bump(p, id) == IF id \in Present(p) THEN 1 ELSE 0

\* C19: a kill signal whose killer or victim is absent creates and increments
\* no accumulator for the absent role, adds exactly 1 to the counter of each
\* role that is present, and appends its EventRecord, in which the name of an
\* absent killer or victim reads "unknown".
C19_AbsentKillerOrVictim ==
    [][\A r \in Requests :
        (KillStep(r) /\ (Last(stream'[r]).Killer = NilPlayer
                         \/ Last(stream'[r]).Victim = NilPlayer)) =>
            LET e == Last(stream'[r])
                old == frame[r][1].playerStats
                new == frame'[r][1].playerStats
                events == frame'[r][1].parsed.Events
            IN  /\ DOMAIN new = DOMAIN old \cup Present(e.Killer) \cup Present(e.Victim)
                                           \cup Present(e.Assister)
                /\ \A id \in DOMAIN new :
                    /\ Cnt(new, id, "Kills") = Cnt(old, id, "Kills") + Bump(e.Killer, id)
                    /\ Cnt(new, id, "Deaths") = Cnt(old, id, "Deaths") + Bump(e.Victim, id)
                    /\ Cnt(new, id, "Assists") = Cnt(old, id, "Assists") + Bump(e.Assister, id)
                /\ OneAppended(frame[r][1].parsed.Events, events)
                /\ Last(events).Tick = e.tick
                /\ Last(events).EventData.killer =
                    (IF e.Killer = NilPlayer THEN "unknown" ELSE e.Killer.Name)
                /\ Last(events).EventData.victim =
                    (IF e.Victim = NilPlayer THEN "unknown" ELSE e.Victim.Name)]_vars

\* The last signal was a kill without a killer: its victim bob has one death
\* and is the only accumulator, and the event names the killer "unknown".
C19_Witness ==
    /\ frame[1] # <<>>
    /\ stream[1] # <<>>
    /\ Last(stream[1]).type = "Kill"
    /\ Last(stream[1]).Killer = NilPlayer
    /\ Last(stream[1]).Victim = bob
    /\ DOMAIN frame[1][1].playerStats = {bob.SteamID64}
    /\ frame[1][1].playerStats[bob.SteamID64].Deaths = 1
    /\ Last(frame[1][1].parsed.Events).EventData.killer = "unknown"
    /\ Last(frame[1][1].parsed.Events).EventData.victim = "bob"

\* ------------------------------------------------------ count conservation
\* The sum of counter c over the entries of accs at the keys in S.
RECURSIVE SumOver(_, _, _)
SumOver(accs, S, c) ==
    IF S = {} THEN 0
    ELSE LET k == CHOOSE x \in S : TRUE
         IN  accs[k][c] + SumOver(accs, S \ {k}, c)

\* How many kill signals of s name a player in the given role.
KillsWith(s, role) ==
    Cardinality({ i \in 1..Len(s) : s[i].type = "Kill" /\ s[i][role] # NilPlayer })

\* The accumulators request r holds: the map while parseDemo runs, the
\* Result's Players once it returned.
Accumulators(r) ==
    IF frame[r] # <<>> THEN frame[r][1].playerStats ELSE parsedData[r][1].Players

\* C20: the kills of all accumulators sum to the number of kill signals with
\* a killer, their deaths to the number with a victim, their assists to the
\* number with an assister; Events has one record per kill signal and Rounds
\* one per round-end; and every accumulator has counted at least once.
C20_CountsConserved ==
    \A r \in Requests :
        Recorded(r) # <<>> =>
            LET accs == Accumulators(r)
            IN  /\ SumOver(accs, DOMAIN accs, "Kills") = KillsWith(stream[r], "Killer")
                /\ SumOver(accs, DOMAIN accs, "Deaths") = KillsWith(stream[r], "Victim")
                /\ SumOver(accs, DOMAIN accs, "Assists") = KillsWith(stream[r], "Assister")
                /\ Len(Recorded(r)[1].Events) = Cardinality(At(stream[r], "Kill"))
                /\ Len(Recorded(r)[1].Rounds) = Cardinality(At(stream[r], "RoundEnd"))
                /\ \A k \in DOMAIN accs :
                    accs[k].Kills + accs[k].Deaths + accs[k].Assists >= 1

\* The Result of a stream in which alice killed herself and, assisted by
\* carol, bob: three players, three kills and deaths counted over two events.
C20_Witness ==
    /\ parsedData[1] # <<>>
    /\ \E i, j \in 1..Len(stream[1]) :
        /\ stream[1][i].type = "Kill"
        /\ stream[1][i].Killer = alice /\ stream[1][i].Victim = alice
        /\ stream[1][j].type = "Kill"
        /\ stream[1][j].Killer = alice /\ stream[1][j].Assister = carol
    /\ Len(parsedData[1][1].Players) = 3
    /\ Len(parsedData[1][1].Events) = 2
    /\ \E i \in 1..3 :
        /\ parsedData[1][1].Players[i].Name = "alice"
        /\ parsedData[1][1].Players[i].Kills = 2
        /\ parsedData[1][1].Players[i].Deaths = 1

\* ------------------------------------------------ effect of a round-end
\* This step is the RoundEnd handler of request r running on Last(stream'[r]).
RoundEndStep(r) ==
    /\ frame[r] # <<>>
    /\ frame'[r] # <<>>
    /\ Len(stream'[r]) = Len(stream[r]) + 1
    /\ Last(stream'[r]).type = "RoundEnd"

\* C21: a round-end changes neither the counter nor the start tick nor any
\* accumulator nor Events; so when the signal before it was a round-end too,
\* the two records carry the same round number and each duration is the
\* ticks since the one start tick in force, over 128 and truncated.
C21_RoundEndFrame ==
    [][\A r \in Requests :
        RoundEndStep(r) =>
            LET f == frame[r][1]
                g == frame'[r][1]
                n == Len(f.parsed.Rounds)
            IN  /\ g.currentRound = f.currentRound
                /\ g.startTick = f.startTick
                /\ g.playerStats = f.playerStats
                /\ g.parsed.Events = f.parsed.Events
                /\ (stream[r] # <<>> /\ Last(stream[r]).type = "RoundEnd") =>
                    /\ Len(g.parsed.Rounds) = n + 1
                    /\ n >= 1
                    /\ g.parsed.Rounds[n + 1].RoundNumber = g.parsed.Rounds[n].RoundNumber
                    /\ IsTruncatedQuotient(g.parsed.Rounds[n].DurationSeconds,
                            Last(stream[r]).tick - f.startTick, TickRateConstant)
                    /\ IsTruncatedQuotient(g.parsed.Rounds[n + 1].DurationSeconds,
                            Last(stream'[r]).tick - f.startTick, TickRateConstant)]_vars

\* A round-start at tick -127 and two round-ends, at ticks -127 and 1280:
\* both records are numbered 1 and last 0 and 10 seconds, the counter is
\* still 1 and the start tick still -127.
C21_Witness ==
    /\ frame[1] # <<>>
    /\ Len(stream[1]) = 3
    /\ stream[1][1].type = "RoundStart" /\ stream[1][1].tick = -127
    /\ stream[1][2].type = "RoundEnd" /\ stream[1][2].tick = -127
    /\ stream[1][3].type = "RoundEnd" /\ stream[1][3].tick = 1280
    /\ frame[1][1].currentRound = 1
    /\ frame[1][1].startTick = -127
    /\ frame[1][1].parsed.Rounds[1].RoundNumber = 1
    /\ frame[1][1].parsed.Rounds[2].RoundNumber = 1
    /\ frame[1][1].parsed.Rounds[1].DurationSeconds = 0
    /\ frame[1][1].parsed.Rounds[2].DurationSeconds = 10

\* ------------------------------------------------- exactly 200 is success
\* This step is downloadDemo returning in request r with a response in hand.
DownloadResponseStep(r) ==
    /\ pc[r] = "download"
    /\ pc'[r] # "download"
    /\ fetched'[r] # <<>>
    /\ ~fetched'[r][1].err

\* This step is sendToWebhook returning in request r with a response in hand.
WebhookResponseStep(r) ==
    /\ pc[r] = "awaiting"
    /\ pc'[r] # "awaiting"
    /\ reply'[r] # <<>>
    /\ ~reply'[r][1].err

ServerErrorWritten(r) ==
    /\ pc'[r] = "done"
    /\ resp'[r] # <<>>
    /\ resp'[r][1].status = StatusInternalServerError

\* C22: a download answered with any status but 200, 201 included, fails:
\* nothing is parsed and /parse answers 500; a delivery answered with any
\* status but 200 fails too and /parse answers 500, a delivery answered 200
\* succeeds and /parse answers 200; either way the receiver had been sent the
\* complete Result, once, before parseHandler wrote any response.
C22_OnlyStatusOKSucceeds ==
    [][\A r \in Requests :
        /\ DownloadResponseStep(r) =>
            /\ "download" \in succeeded'[r] => fetched'[r][1].status = StatusOK
            /\ fetched'[r][1].status # StatusOK =>
                /\ ServerErrorWritten(r)
                /\ "download" \notin succeeded'[r]
                /\ started'[r] = <<"download">>
                /\ frame'[r] = <<>>
        /\ WebhookResponseStep(r) =>
            /\ wire[r] = <<Marshal(parsedData[r][1])>>
            /\ attempts[r] = 1
            /\ resp[r] = <<>>
            /\ IF reply'[r][1].status = StatusOK
               THEN /\ "deliver" \in succeeded'[r]
                    /\ resp'[r] = Response(StatusOK, SuccessBody)
               ELSE /\ "deliver" \notin succeeded'[r]
                    /\ ServerErrorWritten(r)]_vars

\* The download was answered 200, the replay parsed to its end and the
\* Result transmitted once; the receiver answered 201 and /parse 500.
C22_Witness ==
    /\ pc[1] = "done"
    /\ fetched[1] = <<[err |-> FALSE, status |-> 200]>>
    /\ reply[1] = <<[err |-> FALSE, status |-> 201]>>
    /\ attempts[1] = 1
    /\ succeeded[1] = {"download", "parse"}
    /\ resp[1] # <<>>
    /\ resp[1][1].status = 500

====
